---- MODULE Spec2Model ----
(***************************************************************************)
(* State-machine model of the USB class drivers in src/micropython/usbd:   *)
(*   - RingBuf                (midi.py)  circular byte store               *)
(*   - CDCControlInterface    (cdc.py)   class control requests            *)
(*   - CDCDataInterface       (cdc.py)   read() with timeout and _cb_rx    *)
(*   - get_itf_descriptor     (cdc.py)   CDC functional descriptors        *)
(*   - get_itf_descriptor,    (midi.py)  MIDIStreaming jack and endpoint   *)
(*     get_endpoint_descriptors          descriptors                       *)
(*   - MIDIInterface, MidiUSB (midi.py)  receive path and get_midi         *)
(*   - RingBuf put/get        (midi.py)  statement by statement, one       *)
(*                                       producer and one consumer         *)
(*                                                                         *)
(* Python values are modelled as follows.  An attribute that is either     *)
(* None or a value is a sequence of length at most one: None is <<>> and   *)
(* the value x is <<x>>.  A bytearray is a sequence of integers 0..255     *)
(* (TLA+ index i+1 holds Python index i), except RingBuf.data, which is a  *)
(* function on 0..size-1 so that the index arithmetic reads as the code.   *)
(***************************************************************************)
EXTENDS Integers, Sequences, FiniteSets, TLC

VARIABLES
    \* ---- RingBuf (midi.py:18-44)
    rb,                 \* the RingBuf object: [data, size, index_put, index_get]
    rb_ret,             \* value returned by the last put()/get() call
    \* ---- CDCControlInterface (cdc.py:78-185)
    cdc,                \* the CDCControlInterface object: [rts, dtr, baudrate,
                        \*   stop_bits, parity, data_bits, break_cb, line_coding_state]
    ctl_ret,            \* value returned by the last handle_interface_control_xfer
    cb_calls,           \* break-callback invocations made by the last handler call
    lc_pending,         \* framework: a SET_LINE_CODING transfer is between SETUP and DATA
    lc_done,            \* a SET_LINE_CODING transfer has completed its DATA stage
    \* ---- CDCDataInterface (cdc.py:188-231)
    dat,                \* the CDCDataInterface object: [timeout, rx_nbytes,
                        \*   rx_nbytes_requested, total_rx]
    in_flight,          \* framework: transfers outstanding on ep_out, oldest first;
                        \*   each is the number of the read() call that submitted it
    read_pc,            \* "idle", or the line of read() to execute next
    read_id,            \* number of read() calls made so far
    nbytes,             \* argument of the latest read() call
    elapsed,            \* time.time() - now, in seconds, while read() waits
    read_exit,          \* how each read() so far left its loop: "timeout" or "break"
    read_ret,           \* contents of the buffer the latest read() returned
    completed,          \* some transfer has completed since construction
    \* ---- descriptor generation (cdc.py:93-140, midi.py:117-277)
    cdc_itf,            \* None, or the latest CDCControlInterface.get_itf_descriptor
                        \*   call: [num_eps, itf_idx, str_idx, raised, desc]
    midi_itf,           \* None, or the latest MIDIInterface.get_itf_descriptor call:
                        \*   [num_eps, itf_idx, str_idx, desc]
    midi_eps,           \* None, or the latest MIDIInterface.get_endpoint_descriptors
                        \*   call: [ep_addr, str_idx, desc, eps]
    \* ---- MIDIInterface (midi.py:75-277)
    midi,               \* the MIDIInterface object: [num_rx, num_tx, ep_out, ep_in,
                        \*   rb, rx_data]
    midi_xfers,         \* framework: outstanding transfers submitted by the MIDI receive
                        \*   path, oldest first: [ep, buf, cb]
    midi_started,       \* start_receive_data has been called
    midi_raised,        \* None, or the exception the latest MIDI call raised
    midi_ret,           \* None, or the tuple the latest get_midi call returned
    host_pos,           \* number of bytes the host has sent on the MIDI stream
    \* ---- RingBuf with put and get interleaved statement by statement
    crb,                \* the RingBuf object shared by the producer and the consumer
    put_pc,             \* "idle", or the line of put() the producer executes next
    put_value,          \* argument value of the put() call in progress
    put_next,         \* local put_next of the put() call in progress
    put_count,          \* number of put() calls made so far
    put_ret,            \* value returned by the latest put() call
    put_log,            \* the bytes put() has stored, in order
    get_pc,             \* "idle", or the line of get() the consumer executes next
    get_value,          \* local value of the get() call in progress
    get_ret,            \* value returned by the latest get() call
    get_log,            \* the bytes get() has returned, in order
    empty_ret           \* value returned by the latest is_empty() call

rbVars  == <<rb, rb_ret>>
ctlVars == <<cdc, ctl_ret, cb_calls, lc_pending, lc_done>>
datVars == <<dat, in_flight, read_pc, read_id, nbytes, elapsed, read_exit, read_ret,
             completed>>
descVars == <<cdc_itf, midi_itf, midi_eps>>
midiVars == <<midi, midi_xfers, midi_started, midi_raised, midi_ret, host_pos>>
spscVars == <<crb, put_pc, put_value, put_next, put_count, put_ret, put_log,
              get_pc, get_value, get_ret, get_log, empty_ret>>
vars    == <<rbVars, ctlVars, datVars, descVars, midiVars, spscVars>>

None    == <<>>
Some(x) == <<x>>

(***************************************************************************)
(* Bounds of the model and input sets.                                     *)
(***************************************************************************)
MaxRbSize == 4                      \* RingBuf sizes 2..MaxRbSize are explored
MaxReads  == 2                      \* read() is called at most MaxReads times
ByteVals  == {0, 1, 255}            \* byte values handed to put()

(***************************************************************************)
(* RingBuf                                                                 *)
(***************************************************************************)
RingBuf(size) ==
    [data |-> [i \in 0..(size - 1) |-> 0],
     size |-> size,
     index_put |-> 0,
     index_get |-> 0]

\* put() without the overflow check: always stores.
RingBuf_put_NoOverflowCheck(self, value) ==
    LET next_index == (self.index_put + 1) % self.size IN
    [self |-> [self EXCEPT !.data[self.index_put] = value,
                           !.index_put = next_index],
     ret  |-> Some(value)]

RingBuf_put(self, value) ==
    LET next_index == (self.index_put + 1) % self.size IN
    IF self.index_get # next_index
      THEN [self |-> [self EXCEPT !.data[self.index_put] = value,
                                  !.index_put = next_index],
            ret  |-> Some(value)]
      ELSE [self |-> self, ret |-> None]

RingBuf_get(self) ==
    IF self.index_get = self.index_put
      THEN [self |-> self, ret |-> None]
      ELSE [self |-> [self EXCEPT !.index_get = (self.index_get + 1) % self.size],
            ret  |-> Some(self.data[self.index_get])]

RingBuf_is_empty(self) == self.index_get = self.index_put

InitRingBuf ==
    /\ \E size \in 2..MaxRbSize : rb = RingBuf(size)
    /\ rb_ret = None

RbPut(value) ==
    /\ rb' = RingBuf_put(rb, value).self
    /\ rb_ret' = RingBuf_put(rb, value).ret
    /\ UNCHANGED <<ctlVars, datVars, descVars, midiVars, spscVars>>

RbGet ==
    /\ rb' = RingBuf_get(rb).self
    /\ rb_ret' = RingBuf_get(rb).ret
    /\ UNCHANGED <<ctlVars, datVars, descVars, midiVars, spscVars>>

NextRingBuf ==
    \/ \E value \in ByteVals : RbPut(value)
    \/ RbGet

(***************************************************************************)
(* CDCControlInterface                                                     *)
(***************************************************************************)
SET_LINE_CODING_REQ    == 32       \* 0x20
GET_LINE_CODING_REQ    == 33       \* 0x21
SET_CONTROL_LINE_STATE == 34       \* 0x22
SEND_BREAK_REQ         == 35       \* 0x23

\* Values imported from .utils; only their being distinct matters here.
STAGE_SETUP       == "STAGE_SETUP"
STAGE_DATA        == "STAGE_DATA"
STAGE_ACK         == "STAGE_ACK"
REQ_TYPE_STANDARD == "REQ_TYPE_STANDARD"
REQ_TYPE_CLASS    == "REQ_TYPE_CLASS"
REQ_TYPE_VENDOR   == "REQ_TYPE_VENDOR"

\* What handle_interface_control_xfer can return.
RET_LINE_CODING_STATE == "self.line_coding_state"   \* the bytearray itself
RET_EMPTY_BYTES       == "b''"
RET_TRUE              == "True"

\* Inputs of the control-transfer callback explored by the model.
Stages    == {STAGE_SETUP, STAGE_DATA, STAGE_ACK}
ReqTypes  == {REQ_TYPE_STANDARD, REQ_TYPE_CLASS, REQ_TYPE_VENDOR}
BRequests == {SET_LINE_CODING_REQ, GET_LINE_CODING_REQ, SET_CONTROL_LINE_STATE,
              SEND_BREAK_REQ, 0}
WValues   == {0, 1, 2, 3}
Callbacks == {"on_break"}
\* Line codings <<baud, stop, parity, data>> a host sends.  Baud rates stay below
\* 2^31, the largest integers the model checker computes with.
LineCodings == {<<9600, 0, 0, 8>>, <<115200, 2, 4, 7>>, <<305419896, 255, 255, 255>>}

\* The record unpacked with format '<HBBB': a 16-bit rate, the rest two bytes early.
unpack_HBBB(buf) ==
    <<buf[1] + 256 * buf[2], buf[3], buf[4], buf[5]>>

\* ustruct.unpack('<LBBB', buf): little-endian uint32, then three uint8.
unpack_LBBB(buf) ==
    <<buf[1] + 256 * buf[2] + 65536 * buf[3] + 16777216 * buf[4],
      buf[5], buf[6], buf[7]>>

\* The host's encoding of a line coding into the 7-byte record.
pack_LBBB(lc) ==
    <<lc[1] % 256, (lc[1] \div 256) % 256, (lc[1] \div 65536) % 256,
      (lc[1] \div 16777216) % 256, lc[2], lc[3], lc[4]>>

\* <<bool(wValue & 0x1), bool(wValue & 0x2)>> with the two masks exchanged.
ControlLineBits_Swapped(wValue) ==
    <<(wValue \div 2) % 2 = 1, wValue % 2 = 1>>

\* <<bool(wValue & 0x1), bool(wValue & 0x2)>>
ControlLineBits(wValue) ==
    <<wValue % 2 = 1, (wValue \div 2) % 2 = 1>>

\* The callback called with wLength, which is 0 for SEND_BREAK, in place of wValue.
BreakCalls_WLength(self, wValue) ==
    IF self.break_cb # None THEN <<<<self.break_cb[1], 0>>>> ELSE <<>>

\* Calls made by "if self.break_cb: self.break_cb(wValue)": <<callee, argument>>.
BreakCalls(self, wValue) ==
    IF self.break_cb # None THEN <<<<self.break_cb[1], wValue>>>> ELSE <<>>

\* The DATA-stage test without the bRequest comparison.
IsSetLineCodingData_AnyRequest(stage, req_type, bRequest) ==
    stage = STAGE_DATA /\ req_type = REQ_TYPE_CLASS

IsSetLineCodingData(stage, req_type, bRequest) ==
    stage = STAGE_DATA /\ req_type = REQ_TYPE_CLASS /\ bRequest = SET_LINE_CODING_REQ

CDCControlInterface ==
    [rts |-> None, dtr |-> None, baudrate |-> None, stop_bits |-> 0, parity |-> 0,
     data_bits |-> None, break_cb |-> None,
     line_coding_state |-> <<0, 0, 0, 0, 0, 0, 0>>]

\* The handler with the SETUP-stage test "req_type == REQ_TYPE_CLASS" left out.
handle_interface_control_xfer_AnyReqType(self, stage, req_type, bRequest, wValue) ==
    IF stage = STAGE_SETUP /\ bRequest = SET_LINE_CODING_REQ
      THEN [self |-> self, ret |-> RET_LINE_CODING_STATE, calls |-> <<>>]
    ELSE IF stage = STAGE_SETUP /\ bRequest = GET_LINE_CODING_REQ
      THEN [self |-> self, ret |-> RET_LINE_CODING_STATE, calls |-> <<>>]
    ELSE IF stage = STAGE_SETUP /\ bRequest = SET_CONTROL_LINE_STATE
      THEN [self |-> [self EXCEPT !.dtr = Some(ControlLineBits(wValue)[1]),
                                  !.rts = Some(ControlLineBits(wValue)[2])],
            ret |-> RET_EMPTY_BYTES, calls |-> <<>>]
    ELSE IF stage = STAGE_SETUP /\ bRequest = SEND_BREAK_REQ
      THEN [self |-> self, ret |-> RET_EMPTY_BYTES, calls |-> BreakCalls(self, wValue)]
    ELSE IF IsSetLineCodingData(stage, req_type, bRequest)
      THEN LET lc == unpack_LBBB(self.line_coding_state) IN
           [self |-> [self EXCEPT !.baudrate = Some(lc[1]), !.stop_bits = lc[2],
                                  !.parity = lc[3], !.data_bits = Some(lc[4])],
            ret |-> RET_TRUE, calls |-> <<>>]
    ELSE [self |-> self, ret |-> RET_TRUE, calls |-> <<>>]

\* Result of the handler: the object afterwards, the return value, the callback calls.
handle_interface_control_xfer(self, stage, req_type, bRequest, wValue) ==
    IF stage = STAGE_SETUP /\ req_type = REQ_TYPE_CLASS /\ bRequest = SET_LINE_CODING_REQ
      THEN [self |-> self, ret |-> RET_LINE_CODING_STATE, calls |-> <<>>]
    ELSE IF stage = STAGE_SETUP /\ req_type = REQ_TYPE_CLASS /\ bRequest = GET_LINE_CODING_REQ
      THEN [self |-> self, ret |-> RET_LINE_CODING_STATE, calls |-> <<>>]
    ELSE IF stage = STAGE_SETUP /\ req_type = REQ_TYPE_CLASS /\ bRequest = SET_CONTROL_LINE_STATE
      THEN [self |-> [self EXCEPT !.dtr = Some(ControlLineBits(wValue)[1]),
                                  !.rts = Some(ControlLineBits(wValue)[2])],
            ret |-> RET_EMPTY_BYTES, calls |-> <<>>]
    ELSE IF stage = STAGE_SETUP /\ req_type = REQ_TYPE_CLASS /\ bRequest = SEND_BREAK_REQ
      THEN [self |-> self, ret |-> RET_EMPTY_BYTES, calls |-> BreakCalls(self, wValue)]
    ELSE IF IsSetLineCodingData(stage, req_type, bRequest)
      THEN LET lc == unpack_LBBB(self.line_coding_state) IN
           [self |-> [self EXCEPT !.baudrate = Some(lc[1]), !.stop_bits = lc[2],
                                  !.parity = lc[3], !.data_bits = Some(lc[4])],
            ret |-> RET_TRUE, calls |-> <<>>]
    ELSE [self |-> self, ret |-> RET_TRUE, calls |-> <<>>]

get_control_line(self) == <<self.dtr, self.rts>>

InitCtl ==
    /\ cdc = CDCControlInterface
    /\ ctl_ret = None
    /\ cb_calls = <<>>
    /\ lc_pending = FALSE
    /\ lc_done = FALSE

\* The framework delivers one control-transfer callback.
HandleCtl(stage, req_type, bRequest, wValue) ==
    LET r == handle_interface_control_xfer(cdc, stage, req_type, bRequest, wValue) IN
    /\ cdc' = r.self
    /\ ctl_ret' = Some(r.ret)
    /\ cb_calls' = r.calls
    /\ lc_pending' = IF stage = STAGE_SETUP
                       THEN (req_type = REQ_TYPE_CLASS /\ bRequest = SET_LINE_CODING_REQ)
                       ELSE IF stage = STAGE_DATA THEN FALSE ELSE lc_pending
    /\ lc_done' = (lc_done \/ (lc_pending /\ stage = STAGE_DATA /\ req_type = REQ_TYPE_CLASS
                                /\ bRequest = SET_LINE_CODING_REQ))
    /\ UNCHANGED <<rbVars, datVars, descVars, midiVars, spscVars>>

\* The framework stores the host's DATA-stage payload in the buffer that the
\* SETUP stage of SET_LINE_CODING returned.
HostWritePayload(lc) ==
    /\ lc_pending
    /\ cdc' = [cdc EXCEPT !.line_coding_state = pack_LBBB(lc)]
    /\ UNCHANGED <<ctl_ret, cb_calls, lc_pending, lc_done>>
    /\ UNCHANGED <<rbVars, datVars, descVars, midiVars, spscVars>>

SetBreakCb(cb) ==
    /\ cdc' = [cdc EXCEPT !.break_cb = cb]
    /\ UNCHANGED <<ctl_ret, cb_calls, lc_pending, lc_done>>
    /\ UNCHANGED <<rbVars, datVars, descVars, midiVars, spscVars>>

NextCtl ==
    \/ \E stage \in Stages, req_type \in ReqTypes, bRequest \in BRequests, wValue \in WValues :
          HandleCtl(stage, req_type, bRequest, wValue)
    \/ \E lc \in LineCodings : HostWritePayload(lc)
    \/ \E cb \in {None} \cup {Some(c) : c \in Callbacks} : SetBreakCb(cb)

(***************************************************************************)
(* CDCDataInterface: read() runs statement by statement; the framework may *)
(* complete the oldest outstanding transfer, and so run _cb_rx, between    *)
(* any two statements.  A received byte is modelled by the number of the   *)
(* read() call whose transfer delivered it.                                *)
(***************************************************************************)
RX_BUF_LEN == 64                    \* self.rx_buf = bytearray(64)

Timeouts    == {0, 1, 2}            \* constructor argument timeout (default 1)
NBytesArgs  == {0, 1, 64}           \* arguments of read()
NumBytesIn  == {0, 32, 64}          \* num_bytes of a completion, within 0..RX_BUF_LEN

Min(a, b) == IF a < b THEN a ELSE b

\* self.mv_buf[:num_bytes] of a buffer filled by the transfer `xfer`
Received(xfer, num_bytes) == [i \in 1..Min(num_bytes, RX_BUF_LEN) |-> xfer]

\* __init__ creates neither rx_nbytes, rx_nbytes_requested nor total_rx: read() assigns
\* all three (lines 215-217) before it submits the first transfer, and nothing reads
\* them earlier, so the values they are given here are never observed.
CDCDataInterface(timeout) ==
    [timeout |-> timeout, rx_nbytes |-> 0, rx_nbytes_requested |-> 0,
     total_rx |-> <<>>]

\* _cb_rx that ignores the completion of a transfer submitted by an earlier read().
cb_rx_DropStale(self, xfer, cur, num_bytes) ==
    IF xfer # cur
      THEN [self |-> self, submits |-> 0]
      ELSE [self |-> [self EXCEPT !.total_rx = @ \o Received(xfer, num_bytes),
                                  !.rx_nbytes = @ + num_bytes],
            submits |-> IF self.rx_nbytes + num_bytes < self.rx_nbytes_requested
                          THEN 1 ELSE 0]

\* _cb_rx(ep, res, num_bytes) for the completion of transfer `xfer`, while read()
\* number `cur` is the latest one: the object afterwards and the number of
\* transfers it submits.
cb_rx(self, xfer, cur, num_bytes) ==
    [self |-> [self EXCEPT !.total_rx = @ \o Received(xfer, num_bytes),
                           !.rx_nbytes = @ + num_bytes],
     submits |-> IF self.rx_nbytes + num_bytes < self.rx_nbytes_requested
                   THEN 1 ELSE 0]

\* The loop test of read() without the timeout.
LoopContinues_NoTimeout(waited, timeout) == TRUE

\* while ((time.time() - now) < self.timeout)
LoopContinues(waited, timeout) == waited < timeout

\* if self.rx_nbytes >= nbytes: break
LoopBreaks(self, n) == self.rx_nbytes >= n

InitDat ==
    /\ \E t \in Timeouts : dat = CDCDataInterface(t)
    /\ in_flight = <<>>
    /\ read_pc = "idle"
    /\ read_id = 0
    /\ nbytes = 0
    /\ elapsed = 0
    /\ read_exit = <<>>
    /\ read_ret = None
    /\ completed = FALSE

\* read(n) is called and executes line 215.
ReadCall(n) ==
    /\ read_pc = "idle"
    /\ read_id < MaxReads
    /\ read_id' = read_id + 1
    /\ nbytes' = n
    /\ dat' = [dat EXCEPT !.rx_nbytes = 0]
    /\ read_pc' = "l216"
    /\ UNCHANGED <<in_flight, elapsed, read_exit, read_ret, completed>>
    /\ UNCHANGED <<rbVars, ctlVars, descVars, midiVars, spscVars>>

Read216 ==
    /\ read_pc = "l216"
    /\ dat' = [dat EXCEPT !.rx_nbytes_requested = nbytes]
    /\ read_pc' = "l217"
    /\ UNCHANGED <<in_flight, read_id, nbytes, elapsed, read_exit, read_ret, completed>>
    /\ UNCHANGED <<rbVars, ctlVars, descVars, midiVars, spscVars>>

Read217 ==
    /\ read_pc = "l217"
    /\ dat' = [dat EXCEPT !.total_rx = <<>>]
    /\ read_pc' = "l218"
    /\ UNCHANGED <<in_flight, read_id, nbytes, elapsed, read_exit, read_ret, completed>>
    /\ UNCHANGED <<rbVars, ctlVars, descVars, midiVars, spscVars>>

\* self._poll_rx_endpoint(self._cb_rx): submit_xfer(self.ep_out, self.rx_buf, cb)
Read218 ==
    /\ read_pc = "l218"
    /\ in_flight' = Append(in_flight, read_id)
    /\ read_pc' = "l219"
    /\ UNCHANGED <<dat, read_id, nbytes, elapsed, read_exit, read_ret, completed>>
    /\ UNCHANGED <<rbVars, ctlVars, descVars, midiVars, spscVars>>

\* now = time.time()
Read219 ==
    /\ read_pc = "l219"
    /\ elapsed' = 0
    /\ read_pc' = "l220"
    /\ UNCHANGED <<dat, in_flight, read_id, nbytes, read_exit, read_ret, completed>>
    /\ UNCHANGED <<rbVars, ctlVars, descVars, midiVars, spscVars>>

Read220 ==
    /\ read_pc = "l220"
    /\ IF LoopContinues(elapsed, dat.timeout)
         THEN read_pc' = "l221" /\ UNCHANGED read_exit
         ELSE read_pc' = "l224" /\ read_exit' = Append(read_exit, "timeout")
    /\ UNCHANGED <<dat, in_flight, read_id, nbytes, elapsed, read_ret, completed>>
    /\ UNCHANGED <<rbVars, ctlVars, descVars, midiVars, spscVars>>

Read221 ==
    /\ read_pc = "l221"
    /\ IF LoopBreaks(dat, nbytes)
         THEN read_pc' = "l224" /\ read_exit' = Append(read_exit, "break")
         ELSE read_pc' = "l223" /\ UNCHANGED read_exit
    /\ UNCHANGED <<dat, in_flight, read_id, nbytes, elapsed, read_ret, completed>>
    /\ UNCHANGED <<rbVars, ctlVars, descVars, midiVars, spscVars>>

\* time.sleep_ms(10)
Read223 ==
    /\ read_pc = "l223"
    /\ read_pc' = "l220"
    /\ UNCHANGED <<dat, in_flight, read_id, nbytes, elapsed, read_exit, read_ret, completed>>
    /\ UNCHANGED <<rbVars, ctlVars, descVars, midiVars, spscVars>>

\* return self.total_rx
Read224 ==
    /\ read_pc = "l224"
    /\ read_ret' = Some(dat.total_rx)
    /\ read_pc' = "idle"
    /\ UNCHANGED <<dat, in_flight, read_id, nbytes, elapsed, read_exit, completed>>
    /\ UNCHANGED <<rbVars, ctlVars, descVars, midiVars, spscVars>>

\* A second passes on the clock read by time.time() while read() waits.  Seconds
\* beyond the timeout change nothing the loop test can see and are not counted.
Tick ==
    /\ read_pc \in {"l220", "l221", "l223"}
    /\ elapsed < dat.timeout
    /\ elapsed' = elapsed + 1
    /\ UNCHANGED <<dat, in_flight, read_pc, read_id, nbytes, read_exit, read_ret, completed>>
    /\ UNCHANGED <<rbVars, ctlVars, descVars, midiVars, spscVars>>

\* The framework completes the oldest outstanding transfer with num_bytes bytes
\* and runs its callback, _cb_rx, to the end.
Complete(num_bytes) ==
    /\ in_flight # <<>>
    /\ LET r == cb_rx(dat, Head(in_flight), read_id, num_bytes) IN
         /\ dat' = r.self
         /\ in_flight' = Tail(in_flight) \o [i \in 1..r.submits |-> read_id]
    /\ completed' = TRUE
    /\ UNCHANGED <<read_pc, read_id, nbytes, elapsed, read_exit, read_ret>>
    /\ UNCHANGED <<rbVars, ctlVars, descVars, midiVars, spscVars>>

ReadStep ==
    \/ Read216 \/ Read217 \/ Read218 \/ Read219
    \/ Read220 \/ Read221 \/ Read223 \/ Read224

NextDat ==
    \/ \E n \in NBytesArgs : ReadCall(n)
    \/ Read216 \/ Read217 \/ Read218 \/ Read219
    \/ Read220 \/ Read221 \/ Read223 \/ Read224
    \/ Tick
    \/ \E num_bytes \in NumBytesIn : Complete(num_bytes)

(***************************************************************************)
(* Descriptor generation.  A descriptor is the sequence of its bytes.      *)
(***************************************************************************)
_CS_DESC_TYPE                   == 36      \* 0x24
_ITF_ASSOCIATION_DESC_TYPE      == 11      \* 0xb
_INTERFACE_CLASS_CDC            == 2
_INTERFACE_SUBCLASS_CDC         == 2
_PROTOCOL_NONE                  == 0
_CDC_FUNC_DESC_HEADER           == 0
_CDC_FUNC_DESC_CALL_MANAGEMENT  == 1
_CDC_FUNC_DESC_ABSTRACT_CONTROL == 2
_CDC_FUNC_DESC_UNION            == 6
_CDC_VERSION                    == 288     \* 0x0120

_INTERFACE_CLASS_AUDIO                  == 1
_INTERFACE_SUBCLASS_AUDIO_MIDISTREAMING == 3
_JACK_TYPE_EMBEDDED                     == 1
_JACK_TYPE_EXTERNAL                     == 2
_JACK_IN_DESC_LEN                       == 6
_JACK_OUT_DESC_LEN                      == 9

\* Imported from .utils: bit 7 of an endpoint address.
EP_OUT_FLAG == 128

MaxItfIdx == 8                      \* interface indices 0..MaxItfIdx are explored
MaxJacks  == 2                      \* num_rx and num_tx each range over 0..MaxJacks
ItfIdxs   == 0..MaxItfIdx
JackNums  == 0..MaxJacks
NumEps    == {0, 1, 2}              \* argument num_eps
StrIdxs   == {0, 4}                 \* argument str_idx
EpAddrs   == {0, 1, 2}              \* argument ep_addr, the endpoint base address

\* x | flag, for a flag that is a single bit
BitOr(x, flag) == IF (x \div flag) % 2 = 1 THEN x ELSE x + flag

\* The bytes of one value: format code "B" is one byte, "H" two bytes, low byte first.
pack_item(code, v) ==
    IF code = "H" THEN <<v % 256, (v \div 256) % 256>> ELSE <<v % 256>>

\* ustruct.pack("<" + fmt, *vals) as MicroPython computes it: one value is consumed
\* by each format code in turn, a value beyond the last format code is not used, and
\* a format code beyond the last value packs zero.
pack(fmt, vals) ==
    LET bytes[i \in 0..Len(fmt)] ==
          IF i = 0 THEN <<>>
          ELSE bytes[i - 1] \o pack_item(fmt[i], IF i <= Len(vals) THEN vals[i] ELSE 0)
    IN  bytes[Len(fmt)]

\* "B" * n
Bs(n) == [i \in 1..n |-> "B"]

\* USBInterface.get_itf_descriptor of the framework: the 9-byte standard interface
\* descriptor.  Neither driver passes an interface string, so iInterface is 0.
USBInterface_get_itf_descriptor(bClass, bSubClass, bProtocol, num_eps, itf_idx, str_idx) ==
    pack(Bs(9), <<9, 4, itf_idx, 0, num_eps, bClass, bSubClass, bProtocol, 0>>)

\* endpoint_descriptor(bEndpointAddress, "bulk", wMaxPacketSize, bInterval) of .utils
endpoint_descriptor_bulk(bEndpointAddress, wMaxPacketSize, bInterval) ==
    pack(<<"B", "B", "B", "B", "H", "B">>,
         <<7, 5, bEndpointAddress, 2, wMaxPacketSize, bInterval>>)

\* The format and the values of the pack call that builds the Union descriptor.
union_fmt            == <<"B", "B", "B", "H">>
union_values(itf_idx) == <<5, _CS_DESC_TYPE, _CDC_FUNC_DESC_UNION, itf_idx, itf_idx + 1>>

\* CDCControlInterface.get_itf_descriptor.  The Union pack call passes five values to
\* a format of four codes: a runtime that checks the count (`strict`) raises there;
\* MicroPython's ustruct does not check it.
CDCControlInterface_get_itf_descriptor(num_eps, itf_idx, str_idx, strict) ==
    IF strict /\ Len(union_values(itf_idx)) # Len(union_fmt)
      THEN [raised |-> TRUE, desc |-> <<>>]
      ELSE [raised |-> FALSE,
            desc |->
                 pack(Bs(8), <<8, _ITF_ASSOCIATION_DESC_TYPE, itf_idx, 2,
                               _INTERFACE_CLASS_CDC, _INTERFACE_SUBCLASS_CDC,
                               _PROTOCOL_NONE, 0>>)
              \o USBInterface_get_itf_descriptor(_INTERFACE_CLASS_CDC,
                     _INTERFACE_SUBCLASS_CDC, _PROTOCOL_NONE, num_eps, itf_idx, str_idx)
              \o pack(<<"B", "B", "B", "H">>,
                      <<5, _CS_DESC_TYPE, _CDC_FUNC_DESC_HEADER, _CDC_VERSION>>)
              \o pack(Bs(5), <<5, _CS_DESC_TYPE, _CDC_FUNC_DESC_CALL_MANAGEMENT, 0, 1>>)
              \o pack(Bs(4), <<4, _CS_DESC_TYPE, _CDC_FUNC_DESC_ABSTRACT_CONTROL, 6>>)
              \o pack(union_fmt, union_values(itf_idx))]

MIDIInterface(num_rx, num_tx) ==
    [num_rx |-> num_rx, num_tx |-> num_tx, ep_out |-> None, ep_in |-> None,
     rb |-> None, rx_data |-> None]

\* _emb_id without the offset that places the tx IDs after the rx IDs.
_emb_id_NoRxOffset(self, is_tx, idx) ==
    1 + 2 * idx

_emb_id(self, is_tx, idx) ==
    1 + 2 * (idx + (IF is_tx THEN self.num_rx ELSE 0))

cs_ms_interface(self) ==
    pack(<<"B", "B", "B", "H", "H">>,
         <<7, 36, 1, 256,
           7 + (2 * (_JACK_IN_DESC_LEN + _JACK_OUT_DESC_LEN) * (self.num_rx + self.num_tx))>>)

jack_in_desc(bJackType, bJackID) ==
    pack(Bs(6), <<_JACK_IN_DESC_LEN, 36, 2, bJackType, bJackID, 0>>)

jack_out_desc(bJackType, bJackID, bSourceId, bSourcePin) ==
    pack(Bs(9), <<_JACK_OUT_DESC_LEN, 36, 3, bJackType, bJackID, 1, bSourceId,
                  bSourcePin, 0>>)

\* The jacks appended by the loop "for idx in range(self._num_rx)".
rx_jacks(self) ==
    LET jacks[n \in 0..self.num_rx] ==
          IF n = 0 THEN <<>>
          ELSE LET idx    == n - 1
                   emb_id == _emb_id(self, FALSE, idx)
                   ext_id == emb_id + 1
                   pin    == idx + 1
               IN  jacks[n - 1] \o jack_in_desc(_JACK_TYPE_EMBEDDED, emb_id)
                                \o jack_out_desc(_JACK_TYPE_EXTERNAL, ext_id, emb_id, pin)
    IN  jacks[self.num_rx]

\* The jacks appended by the loop "for idx in range(self._num_tx)".
tx_jacks(self) ==
    LET jacks[n \in 0..self.num_tx] ==
          IF n = 0 THEN <<>>
          ELSE LET idx    == n - 1
                   emb_id == _emb_id(self, TRUE, idx)
                   ext_id == emb_id + 1
                   pin    == idx + 1
               IN  jacks[n - 1] \o jack_in_desc(_JACK_TYPE_EXTERNAL, ext_id)
                                \o jack_out_desc(_JACK_TYPE_EMBEDDED, emb_id, ext_id, pin)
    IN  jacks[self.num_tx]

MIDIInterface_get_itf_descriptor(self, num_eps, itf_idx, str_idx) ==
       USBInterface_get_itf_descriptor(_INTERFACE_CLASS_AUDIO,
           _INTERFACE_SUBCLASS_AUDIO_MIDISTREAMING, _PROTOCOL_NONE, num_eps, itf_idx, str_idx)
    \o cs_ms_interface(self)
    \o rx_jacks(self)
    \o tx_jacks(self)

\* *(self._emb_id(is_tx, idx) for idx in range(num))
emb_ids(self, is_tx, num) == [n \in 1..num |-> _emb_id(self, is_tx, n - 1)]

\* cs_out with the jack IDs of the tx side.
cs_out_TxIds(self) ==
    pack(Bs(4 + self.num_rx),
         <<4 + self.num_rx, 37, 1, self.num_rx>> \o emb_ids(self, TRUE, self.num_rx))

cs_out(self) ==
    pack(Bs(4 + self.num_rx),
         <<4 + self.num_rx, 37, 1, self.num_rx>> \o emb_ids(self, FALSE, self.num_rx))

cs_in(self) ==
    pack(Bs(4 + self.num_tx),
         <<4 + self.num_tx, 37, 1, self.num_tx>> \o emb_ids(self, TRUE, self.num_tx))

\* MIDIInterface.get_endpoint_descriptors: the object afterwards and the returned
\* descriptor and endpoint addresses.
MIDIInterface_get_endpoint_descriptors(self, ep_addr, str_idx) ==
    LET ep_out == BitOr(ep_addr + 1, EP_OUT_FLAG)
        ep_in  == ep_addr + 2
    IN  [self |-> [self EXCEPT !.ep_out = Some(ep_out), !.ep_in = Some(ep_in)],
         desc |->    endpoint_descriptor_bulk(ep_out, 64, 0) \o cs_out(self)
                  \o endpoint_descriptor_bulk(ep_in, 64, 0) \o cs_in(self),
         eps  |-> <<ep_out, ep_in>>]

InitDesc ==
    /\ cdc_itf = None
    /\ midi_itf = None
    /\ midi_eps = None

InitMidi ==
    \E num_rx \in JackNums, num_tx \in JackNums : midi = MIDIInterface(num_rx, num_tx)

InitMidiReceive ==
    /\ midi_xfers = <<>>
    /\ midi_started = FALSE
    /\ midi_raised = None
    /\ midi_ret = None
    /\ host_pos = 0

\* The framework asks the CDC control interface for its interface descriptor.
CdcGetItfDescriptor(num_eps, itf_idx, str_idx, strict) ==
    LET r == CDCControlInterface_get_itf_descriptor(num_eps, itf_idx, str_idx, strict) IN
    /\ cdc_itf' = Some([num_eps |-> num_eps, itf_idx |-> itf_idx, str_idx |-> str_idx,
                        raised |-> r.raised, desc |-> r.desc])
    /\ UNCHANGED <<midi_itf, midi_eps>>
    /\ UNCHANGED <<rbVars, ctlVars, datVars, midiVars, spscVars>>

\* The framework asks the MIDI interface for its interface descriptor.
MidiGetItfDescriptor(num_eps, itf_idx, str_idx) ==
    /\ midi_itf' = Some([num_eps |-> num_eps, itf_idx |-> itf_idx, str_idx |-> str_idx,
                         desc |-> MIDIInterface_get_itf_descriptor(midi, num_eps, itf_idx,
                                                                   str_idx)])
    /\ UNCHANGED <<cdc_itf, midi_eps>>
    /\ UNCHANGED <<rbVars, ctlVars, datVars, midiVars, spscVars>>

\* The framework asks the MIDI interface for its endpoint descriptors.
MidiGetEndpointDescriptors(ep_addr, str_idx) ==
    LET r == MIDIInterface_get_endpoint_descriptors(midi, ep_addr, str_idx) IN
    /\ midi' = r.self
    /\ midi_eps' = Some([ep_addr |-> ep_addr, str_idx |-> str_idx, desc |-> r.desc,
                         eps |-> r.eps])
    /\ UNCHANGED <<cdc_itf, midi_itf>>
    /\ UNCHANGED <<midi_xfers, midi_started, midi_raised, midi_ret, host_pos>>
    /\ UNCHANGED <<rbVars, ctlVars, datVars, spscVars>>

NextCdcDesc ==
    \E num_eps \in NumEps, itf_idx \in ItfIdxs, str_idx \in StrIdxs, strict \in BOOLEAN :
        CdcGetItfDescriptor(num_eps, itf_idx, str_idx, strict)

NextMidiDesc ==
    \/ \E num_eps \in NumEps, itf_idx \in ItfIdxs, str_idx \in StrIdxs :
          MidiGetItfDescriptor(num_eps, itf_idx, str_idx)
    \/ \E ep_addr \in EpAddrs, str_idx \in StrIdxs :
          MidiGetEndpointDescriptors(ep_addr, str_idx)

(***************************************************************************)
(* MIDI receive path.  __init__ creates neither self.rb nor self.rx_data,  *)
(* the attributes that midi_received, get_rb, receive_data_callback and    *)
(* start_receive_data read: an attribute that does not exist is None in    *)
(* the record, and reading it raises AttributeError.  The host's stream is *)
(* a sequence of 4-byte USB-MIDI events; byte number n of the stream has   *)
(* the value n, so that byte 4e+k is byte k of event e.                    *)
(***************************************************************************)
MaxMidiBytes == 12                  \* the host sends at most MaxMidiBytes bytes
RX_DATA_LEN  == 64                  \* length of the transfer buffer
MidiRbSizes  == {4, 8}              \* sizes of the RingBuf an application creates
NumMidiBytes == {0, 3, 4, 8}        \* xferred_bytes of a completion

ATTRIBUTE_ERROR       == "AttributeError"
RX_DATA               == "self.rx_data"
RECEIVE_DATA_CALLBACK == "self.receive_data_callback"

\* The endpoint address receive_data_callback passes to submit_xfer.
RESUBMIT_EP == 3                    \* 0x03

HostByte(n) == n % 256

\* The transfer buffer after the framework has stored the n bytes that follow
\* position pos of the host's stream at its start.
Filled(buf, pos, n) ==
    [i \in 1..Len(buf) |-> IF i <= n THEN HostByte(pos + i - 1) ELSE buf[i]]

\* start_receive_data(): the exception raised, if any, and the transfers submitted.
start_receive_data(self) ==
    IF self.rx_data = None
      THEN [raised |-> Some(ATTRIBUTE_ERROR), submits |-> <<>>]
      ELSE [raised |-> None,
            submits |-> <<[ep |-> self.ep_in[1], buf |-> RX_DATA,
                           cb |-> RECEIVE_DATA_CALLBACK]>>]

\* The RingBuf after "for i in range(0, xferred_bytes): self.rb.put(self.rx_data[i])".
PutAll(ringbuf, rx_data, xferred_bytes) ==
    LET after[i \in 0..xferred_bytes] ==
          IF i = 0 THEN ringbuf ELSE RingBuf_put(after[i - 1], rx_data[i]).self
    IN  after[xferred_bytes]

\* receive_data_callback(ep_addr, result, xferred_bytes): the object afterwards, the
\* exception raised, if any, and the transfers submitted.
receive_data_callback(self, xferred_bytes) ==
    IF xferred_bytes > 0 /\ (self.rb = None \/ self.rx_data = None)
      THEN [self |-> self, raised |-> Some(ATTRIBUTE_ERROR), submits |-> <<>>]
    ELSE IF self.rx_data = None
      THEN [self |-> self, raised |-> Some(ATTRIBUTE_ERROR), submits |-> <<>>]
    ELSE [self |-> IF xferred_bytes > 0
                     THEN [self EXCEPT !.rb = Some(PutAll(self.rb[1], self.rx_data[1],
                                                          xferred_bytes))]
                     ELSE self,
          raised |-> None,
          submits |-> <<[ep |-> RESUBMIT_EP, buf |-> RX_DATA,
                         cb |-> RECEIVE_DATA_CALLBACK]>>]

\* MidiUSB.get_midi(): the object afterwards, the exception raised, if any, and the
\* tuple returned.  Each get_rb() returns None or a byte.
get_midi(self) ==
    IF self.rb = None
      THEN [self |-> self, raised |-> Some(ATTRIBUTE_ERROR), ret |-> None]
    ELSE IF ~RingBuf_is_empty(self.rb[1])
      THEN LET cin  == RingBuf_get(self.rb[1])
               cmd  == RingBuf_get(cin.self)
               val1 == RingBuf_get(cmd.self)
               val2 == RingBuf_get(val1.self)
           IN  [self |-> [self EXCEPT !.rb = Some(val2.self)],
                raised |-> None,
                ret |-> Some(<<cin.ret, cmd.ret, val1.ret, val2.ret>>)]
    ELSE [self |-> self, raised |-> None, ret |-> Some(<<None, None, None, None>>)]

\* Code outside the driver gives the object the two attributes the receive path
\* reads: self.rb = RingBuf(size) and self.rx_data = bytearray(64).
AppCreatesBuffers(size) ==
    /\ midi.rb = None
    /\ midi.rx_data = None
    /\ midi' = [midi EXCEPT !.rb = Some(RingBuf(size)),
                            !.rx_data = Some([i \in 1..RX_DATA_LEN |-> 0])]
    /\ UNCHANGED <<midi_xfers, midi_started, midi_raised, midi_ret, host_pos>>
    /\ UNCHANGED <<rbVars, ctlVars, datVars, descVars, spscVars>>

\* MidiUSB.start(), once, after the framework has assigned the endpoints.
StartReceiveData ==
    /\ ~midi_started
    /\ midi.ep_in # None
    /\ midi_started' = TRUE
    /\ midi_raised' = start_receive_data(midi).raised
    /\ midi_xfers' = midi_xfers \o start_receive_data(midi).submits
    /\ UNCHANGED <<midi, midi_ret, host_pos>>
    /\ UNCHANGED <<rbVars, ctlVars, datVars, descVars, spscVars>>

\* The framework completes the oldest outstanding transfer with the next
\* xferred_bytes bytes of the host's stream and runs receive_data_callback.
MidiComplete(xferred_bytes) ==
    /\ midi_xfers # <<>>
    /\ host_pos + xferred_bytes <= MaxMidiBytes
    /\ LET filled == [midi EXCEPT !.rx_data =
                        Some(Filled(midi.rx_data[1], host_pos, xferred_bytes))]
           r      == receive_data_callback(filled, xferred_bytes)
       IN  /\ midi' = r.self
           /\ midi_raised' = r.raised
           /\ midi_xfers' = Tail(midi_xfers) \o r.submits
    /\ host_pos' = host_pos + xferred_bytes
    /\ UNCHANGED <<midi_started, midi_ret>>
    /\ UNCHANGED <<rbVars, ctlVars, datVars, descVars, spscVars>>

\* The application polls with MidiUSB.get_midi().
GetMidi ==
    /\ midi' = get_midi(midi).self
    /\ midi_raised' = get_midi(midi).raised
    /\ midi_ret' = get_midi(midi).ret
    /\ UNCHANGED <<midi_xfers, midi_started, host_pos>>
    /\ UNCHANGED <<rbVars, ctlVars, datVars, descVars, spscVars>>

NextMidi ==
    \/ \E size \in MidiRbSizes : AppCreatesBuffers(size)
    \/ \E ep_addr \in EpAddrs, str_idx \in StrIdxs :
          MidiGetEndpointDescriptors(ep_addr, str_idx)
    \/ StartReceiveData
    \/ \E xferred_bytes \in NumMidiBytes : MidiComplete(xferred_bytes)
    \/ GetMidi

(***************************************************************************)
(* RingBuf with one producer and one consumer.  put() runs in the receive- *)
(* completion callback, get() and is_empty() in the polling API; here each *)
(* may run between any two statements of the other.  The producer puts the *)
(* bytes 1, 2, 3, ... so that every stored byte is told apart.             *)
(***************************************************************************)
MaxPuts == 4                        \* put() is called at most MaxPuts times

\* next_index = (self.index_put + 1) % self.size
put_l26(self) == (self.index_put + 1) % self.size

\* if self.index_get != next_index
put_l28(self, nxt) == self.index_get # nxt

\* Line 29 storing at next_index in place of index_put.
put_l29_StoreAtNext(self, value, nxt) == [self EXCEPT !.data[nxt] = value]

\* self.data[self.index_put] = value
put_l29(self, value, nxt) == [self EXCEPT !.data[self.index_put] = value]

\* self.index_put = next_index
put_l30(self, nxt) == [self EXCEPT !.index_put = nxt]

\* if self.index_get == self.index_put
get_l36(self) == self.index_get = self.index_put

\* value = self.data[self.index_get]
get_l39(self) == self.data[self.index_get]

\* self.index_get = (self.index_get + 1) % self.size
get_l40(self) == [self EXCEPT !.index_get = (self.index_get + 1) % self.size]

InitSpsc ==
    /\ \E size \in 2..MaxRbSize : crb = RingBuf(size)
    /\ put_pc = "idle"
    /\ put_value = 0
    /\ put_next = 0
    /\ put_count = 0
    /\ put_ret = None
    /\ put_log = <<>>
    /\ get_pc = "idle"
    /\ get_value = 0
    /\ get_ret = None
    /\ get_log = <<>>
    /\ empty_ret = None

\* put(value) is called and executes line 26.
PutCall ==
    /\ put_pc = "idle"
    /\ put_count < MaxPuts
    /\ put_count' = put_count + 1
    /\ put_value' = put_count + 1
    /\ put_next' = put_l26(crb)
    /\ put_pc' = "l28"
    /\ UNCHANGED <<crb, put_ret, put_log, get_pc, get_value, get_ret, get_log, empty_ret>>
    /\ UNCHANGED <<rbVars, ctlVars, datVars, descVars, midiVars>>

Put28 ==
    /\ put_pc = "l28"
    /\ put_pc' = IF put_l28(crb, put_next) THEN "l29" ELSE "l33"
    /\ UNCHANGED <<crb, put_value, put_next, put_count, put_ret, put_log,
                   get_pc, get_value, get_ret, get_log, empty_ret>>
    /\ UNCHANGED <<rbVars, ctlVars, datVars, descVars, midiVars>>

Put29 ==
    /\ put_pc = "l29"
    /\ crb' = put_l29(crb, put_value, put_next)
    /\ put_pc' = "l30"
    /\ UNCHANGED <<put_value, put_next, put_count, put_ret, put_log,
                   get_pc, get_value, get_ret, get_log, empty_ret>>
    /\ UNCHANGED <<rbVars, ctlVars, datVars, descVars, midiVars>>

Put30 ==
    /\ put_pc = "l30"
    /\ crb' = put_l30(crb, put_next)
    /\ put_log' = Append(put_log, put_value)
    /\ put_pc' = "l31"
    /\ UNCHANGED <<put_value, put_next, put_count, put_ret,
                   get_pc, get_value, get_ret, get_log, empty_ret>>
    /\ UNCHANGED <<rbVars, ctlVars, datVars, descVars, midiVars>>

\* return value
Put31 ==
    /\ put_pc = "l31"
    /\ put_ret' = Some(put_value)
    /\ put_pc' = "idle"
    /\ UNCHANGED <<crb, put_value, put_next, put_count, put_log,
                   get_pc, get_value, get_ret, get_log, empty_ret>>
    /\ UNCHANGED <<rbVars, ctlVars, datVars, descVars, midiVars>>

\* return None
Put33 ==
    /\ put_pc = "l33"
    /\ put_ret' = None
    /\ put_pc' = "idle"
    /\ UNCHANGED <<crb, put_value, put_next, put_count, put_log,
                   get_pc, get_value, get_ret, get_log, empty_ret>>
    /\ UNCHANGED <<rbVars, ctlVars, datVars, descVars, midiVars>>

\* get() is called and executes line 36.
GetCall ==
    /\ get_pc = "idle"
    /\ get_pc' = IF get_l36(crb) THEN "l37" ELSE "l39"
    /\ UNCHANGED <<crb, put_pc, put_value, put_next, put_count, put_ret, put_log,
                   get_value, get_ret, get_log, empty_ret>>
    /\ UNCHANGED <<rbVars, ctlVars, datVars, descVars, midiVars>>

\* return None
Get37 ==
    /\ get_pc = "l37"
    /\ get_ret' = None
    /\ get_pc' = "idle"
    /\ UNCHANGED <<crb, put_pc, put_value, put_next, put_count, put_ret, put_log,
                   get_value, get_log, empty_ret>>
    /\ UNCHANGED <<rbVars, ctlVars, datVars, descVars, midiVars>>

Get39 ==
    /\ get_pc = "l39"
    /\ get_value' = get_l39(crb)
    /\ get_pc' = "l40"
    /\ UNCHANGED <<crb, put_pc, put_value, put_next, put_count, put_ret, put_log,
                   get_ret, get_log, empty_ret>>
    /\ UNCHANGED <<rbVars, ctlVars, datVars, descVars, midiVars>>

Get40 ==
    /\ get_pc = "l40"
    /\ crb' = get_l40(crb)
    /\ get_pc' = "l41"
    /\ UNCHANGED <<put_pc, put_value, put_next, put_count, put_ret, put_log,
                   get_value, get_ret, get_log, empty_ret>>
    /\ UNCHANGED <<rbVars, ctlVars, datVars, descVars, midiVars>>

\* return value
Get41 ==
    /\ get_pc = "l41"
    /\ get_ret' = Some(get_value)
    /\ get_log' = Append(get_log, get_value)
    /\ get_pc' = "idle"
    /\ UNCHANGED <<crb, put_pc, put_value, put_next, put_count, put_ret, put_log,
                   get_value, empty_ret>>
    /\ UNCHANGED <<rbVars, ctlVars, datVars, descVars, midiVars>>

\* is_empty() is called by the consumer: one statement.
IsEmptyCall ==
    /\ get_pc = "idle"
    /\ empty_ret' = Some(RingBuf_is_empty(crb))
    /\ UNCHANGED <<crb, put_pc, put_value, put_next, put_count, put_ret, put_log,
                   get_pc, get_value, get_ret, get_log>>
    /\ UNCHANGED <<rbVars, ctlVars, datVars, descVars, midiVars>>

NextSpsc ==
    \/ PutCall \/ Put28 \/ Put29 \/ Put30 \/ Put31 \/ Put33
    \/ GetCall \/ Get37 \/ Get39 \/ Get40 \/ Get41
    \/ IsEmptyCall

(***************************************************************************)
(* Specifications: each driver object on its own, the others left as       *)
(* constructed.                                                            *)
(***************************************************************************)
RestRingBuf == rb = RingBuf(2) /\ rb_ret = None
RestDat     == InitDat /\ dat.timeout = 1
RestMidi    == midi = MIDIInterface(1, 1) /\ InitMidiReceive
RestSpsc    == InitSpsc /\ crb.size = 2

InitSpecRingBuf ==
    InitRingBuf /\ InitCtl /\ RestDat /\ InitDesc /\ RestMidi /\ RestSpsc
InitSpecCtl ==
    RestRingBuf /\ InitCtl /\ RestDat /\ InitDesc /\ RestMidi /\ RestSpsc
InitSpecDat ==
    RestRingBuf /\ InitCtl /\ InitDat /\ InitDesc /\ RestMidi /\ RestSpsc
InitSpecCdcDesc ==
    RestRingBuf /\ InitCtl /\ RestDat /\ InitDesc /\ RestMidi /\ RestSpsc
InitSpecMidiDesc ==
    RestRingBuf /\ InitCtl /\ RestDat /\ InitDesc /\ InitMidi /\ InitMidiReceive /\ RestSpsc
InitSpecSpsc ==
    RestRingBuf /\ InitCtl /\ RestDat /\ InitDesc /\ RestMidi /\ InitSpsc
InitSpecMidi ==
    RestRingBuf /\ InitCtl /\ RestDat /\ InitDesc /\ RestMidi /\ RestSpsc

SpecRingBuf  == InitSpecRingBuf /\ [][NextRingBuf]_vars
SpecCtl      == InitSpecCtl /\ [][NextCtl]_vars
SpecDat      == InitSpecDat /\ [][NextDat]_vars
SpecCdcDesc  == InitSpecCdcDesc /\ [][NextCdcDesc]_vars
SpecMidiDesc == InitSpecMidiDesc /\ [][NextMidiDesc]_vars
SpecSpsc     == InitSpecSpsc /\ [][NextSpsc]_vars
SpecMidi     == InitSpecMidi /\ [][NextMidi]_vars
SpecDatFair == SpecDat /\ WF_vars(ReadStep) /\ WF_vars(Tick)

(***************************************************************************)
(* RingBuf properties                                                      *)
(***************************************************************************)
\* The queue a RingBuf holds: the bytes from index_get up to index_put, oldest first.
Contents(self) ==
    [i \in 1..((self.index_put - self.index_get) % self.size) |->
        self.data[(self.index_get + i - 1) % self.size]]

C1_PutStep(value) ==
    RbPut(value) =>
        IF Len(Contents(rb)) < rb.size - 1
          THEN /\ Contents(rb') = Append(Contents(rb), value)
               /\ rb_ret' = Some(value)
          ELSE /\ rb_ret' = None
               /\ rb' = rb

C1_GetStep ==
    RbGet =>
        IF Contents(rb) # <<>>
          THEN /\ rb_ret' = Some(Head(Contents(rb)))
               /\ Contents(rb') = Tail(Contents(rb))
          ELSE /\ rb_ret' = None
               /\ rb' = rb

\* C1: a RingBuf of size N >= 2 is a FIFO queue bounded to N-1 bytes.  put appends the
\* byte and returns it while fewer than N-1 bytes are held, and returns None and
\* changes nothing when N-1 are held; get returns and removes the oldest byte, and
\* returns None and changes nothing when the queue is empty; is_empty() is true
\* exactly when the queue holds no byte; the indices stay within 0..N-1.
C1_RingBufIsBoundedFifo ==
    /\ [](RingBuf_is_empty(rb) <=> Contents(rb) = <<>>)
    /\ [](/\ Len(Contents(rb)) <= rb.size - 1
          /\ rb.index_put \in 0..(rb.size - 1)
          /\ rb.index_get \in 0..(rb.size - 1))
    /\ [][(\A value \in ByteVals : C1_PutStep(value)) /\ C1_GetStep]_vars

\* A full buffer whose contents wrap around the end of data, after a rejected put.
C1_Witness ==
    /\ rb.size >= 3
    /\ Len(Contents(rb)) = rb.size - 1
    /\ rb.index_put < rb.index_get
    /\ ~RingBuf_is_empty(rb)
    /\ rb_ret = None

(***************************************************************************)
(* CDCControlInterface properties                                          *)
(***************************************************************************)
LineCodingFields(self) ==
    <<self.baudrate, self.stop_bits, self.parity, self.data_bits>>

\* The fields as values, once a DATA stage has set them.
DecodedLineCoding(self) ==
    <<self.baudrate[1], self.stop_bits, self.parity, self.data_bits[1]>>

\* Bytes 0-3 little-endian rate, byte 4 stop bits, byte 5 parity, byte 6 data bits.
RecordDecode(b) ==
    <<Some(b[1] + b[2] * 256 + b[3] * 256 * 256 + b[4] * 256 * 256 * 256),
      b[5], b[6], Some(b[7])>>

IsSetLineCodingSetup(wValue) ==
    HandleCtl(STAGE_SETUP, REQ_TYPE_CLASS, SET_LINE_CODING_REQ, wValue)

IsSetLineCodingDataStage(wValue) ==
    HandleCtl(STAGE_DATA, REQ_TYPE_CLASS, SET_LINE_CODING_REQ, wValue)

\* C6: the SETUP stage of a class SET_LINE_CODING returns the 7-byte line-coding
\* buffer and changes nothing; the DATA stage then sets baudrate, stop_bits, parity
\* and data_bits to the little-endian decode of that buffer, so that a line coding
\* the host encoded into the record is decoded to the same values.
C6_SetLineCodingEndToEnd ==
    [][\A wValue \in WValues :
        /\ IsSetLineCodingSetup(wValue) =>
             /\ ctl_ret' = Some(RET_LINE_CODING_STATE)
             /\ Len(cdc'.line_coding_state) = 7
             /\ cdc' = cdc
        /\ IsSetLineCodingDataStage(wValue) =>
             /\ LineCodingFields(cdc') = RecordDecode(cdc.line_coding_state)
             /\ cdc'.line_coding_state = cdc.line_coding_state
             /\ \A lc \in LineCodings :
                  cdc.line_coding_state = pack_LBBB(lc) => DecodedLineCoding(cdc') = lc
      ]_vars

\* SETUP, the payload for 9600 baud / 1 stop bit / no parity / 8 data bits, DATA.
C6_Witness ==
    /\ lc_done
    /\ cdc.line_coding_state = <<128, 37, 0, 0, 0, 0, 8>>
    /\ LineCodingFields(cdc) = <<Some(9600), 0, 0, Some(8)>>
    /\ ctl_ret = Some(RET_TRUE)

\* C7: in every state reached after a SET_LINE_CODING DATA stage has completed, across
\* any later control-transfer callbacks and host payloads written into the buffer
\* returned at SETUP, the decoded fields equal the decode of the 7-byte record.
C7_FieldsMatchRecord ==
    lc_done => LineCodingFields(cdc) = RecordDecode(cdc.line_coding_state)

\* C8: the decoded fields start with baudrate unset and are changed only by a DATA-stage
\* call for a class SET_LINE_CODING request; every other call of the handler leaves
\* them unchanged, and a SETUP-stage GET_LINE_CODING returns the 7-byte record and
\* changes neither the record nor any field.
C8_LineCodingFrame ==
    /\ cdc.baudrate = None
    /\ [][/\ LineCodingFields(cdc') # LineCodingFields(cdc) =>
                /\ \E wValue \in WValues : IsSetLineCodingDataStage(wValue)
                /\ \A stage \in Stages, req_type \in ReqTypes, bRequest \in BRequests,
                      wValue \in WValues :
                      HandleCtl(stage, req_type, bRequest, wValue) =>
                        (/\ stage = STAGE_DATA
                         /\ req_type = REQ_TYPE_CLASS
                         /\ bRequest = SET_LINE_CODING_REQ)
          /\ \A wValue \in WValues :
                HandleCtl(STAGE_SETUP, REQ_TYPE_CLASS, GET_LINE_CODING_REQ, wValue)
                  => ctl_ret' = Some(RET_LINE_CODING_STATE) /\ cdc' = cdc
         ]_vars

\* GET_LINE_CODING answered at SETUP while the fields hold a decoded line coding.
C8_Witness ==
    /\ cdc.baudrate = Some(115200)
    /\ ctl_ret = Some(RET_LINE_CODING_STATE)
    /\ ~lc_pending

IsSetControlLineState(wValue) ==
    HandleCtl(STAGE_SETUP, REQ_TYPE_CLASS, SET_CONTROL_LINE_STATE, wValue)

\* C9: a SETUP-stage class SET_CONTROL_LINE_STATE with value v sets dtr to bit 0 of v
\* and rts to bit 1 of v, returns an empty acknowledgment and changes nothing else;
\* get_control_line() then returns that pair (0x3: (True, True), 0x0: (False, False));
\* no other stage or request changes dtr or rts.
C9_ControlLineState ==
    [][/\ \A wValue \in WValues :
            IsSetControlLineState(wValue) =>
              /\ cdc' = [cdc EXCEPT !.dtr = Some(wValue \in {1, 3}),
                                    !.rts = Some(wValue \in {2, 3})]
              /\ ctl_ret' = Some(RET_EMPTY_BYTES)
              /\ cb_calls' = <<>>
              /\ get_control_line(cdc') = <<Some(wValue \in {1, 3}), Some(wValue \in {2, 3})>>
              /\ (wValue = 3 => get_control_line(cdc') = <<Some(TRUE), Some(TRUE)>>)
              /\ (wValue = 0 => get_control_line(cdc') = <<Some(FALSE), Some(FALSE)>>)
       /\ get_control_line(cdc') # get_control_line(cdc)
            => \E wValue \in WValues : IsSetControlLineState(wValue)
      ]_vars

\* After SET_CONTROL_LINE_STATE with value 0x1: DTR set, RTS clear.
C9_Witness ==
    /\ get_control_line(cdc) = <<Some(TRUE), Some(FALSE)>>
    /\ ctl_ret = Some(RET_EMPTY_BYTES)
    /\ cb_calls = <<>>

IsSendBreak(wValue) ==
    HandleCtl(STAGE_SETUP, REQ_TYPE_CLASS, SEND_BREAK_REQ, wValue)

\* C10: a SETUP-stage class SEND_BREAK with value d calls the registered break callback
\* exactly once with argument d, calls nothing when none is registered, and either
\* way returns an empty acknowledgment and leaves dtr, rts and the line coding
\* unchanged; no other stage or request calls the break callback.
C10_SendBreak ==
    [][/\ \A wValue \in WValues :
            IsSendBreak(wValue) =>
              /\ cdc.break_cb = None => cb_calls' = <<>>
              /\ \A cb \in Callbacks :
                    cdc.break_cb = Some(cb) => cb_calls' = << <<cb, wValue>> >>
              /\ ctl_ret' = Some(RET_EMPTY_BYTES)
              /\ cdc' = cdc
       /\ cb_calls' # <<>> =>
             \A stage \in Stages, req_type \in ReqTypes, bRequest \in BRequests,
                wValue \in WValues :
                HandleCtl(stage, req_type, bRequest, wValue) =>
                  (/\ stage = STAGE_SETUP
                   /\ req_type = REQ_TYPE_CLASS
                   /\ bRequest = SEND_BREAK_REQ)
       /\ cb_calls' # cb_calls =>
             \E stage \in Stages, req_type \in ReqTypes, bRequest \in BRequests,
                wValue \in WValues : HandleCtl(stage, req_type, bRequest, wValue)
      ]_vars

\* The registered callback was called once with a break duration of 3.
C10_Witness ==
    /\ cdc.break_cb = Some("on_break")
    /\ cb_calls = << <<"on_break", 3>> >>
    /\ ctl_ret = Some(RET_EMPTY_BYTES)

\* The combinations the handler acts on: the four class requests at SETUP and a class
\* SET_LINE_CODING at DATA.
IsHandledRequest(stage, req_type, bRequest) ==
    \/ /\ stage = STAGE_SETUP
       /\ req_type = REQ_TYPE_CLASS
       /\ bRequest \in {SET_LINE_CODING_REQ, GET_LINE_CODING_REQ,
                        SET_CONTROL_LINE_STATE, SEND_BREAK_REQ}
    \/ /\ stage = STAGE_DATA
       /\ req_type = REQ_TYPE_CLASS
       /\ bRequest = SET_LINE_CODING_REQ

\* C11: for every (stage, request type, request code) other than the four class
\* requests at SETUP and a class SET_LINE_CODING at DATA, the handler returns True,
\* calls no callback and leaves every attribute of the control interface unchanged.
C11_UnhandledRequests ==
    [][(~(ctl_ret' = Some(RET_TRUE) /\ cb_calls' = <<>> /\ cdc' = cdc)) =>
          \A stage \in Stages, req_type \in ReqTypes, bRequest \in BRequests,
             wValue \in WValues :
             HandleCtl(stage, req_type, bRequest, wValue)
               => IsHandledRequest(stage, req_type, bRequest)
      ]_vars

\* A request that is not handled has returned True: the control lines are set, a
\* break callback is registered and was not called, and no DATA stage of
\* SET_LINE_CODING has set the line coding.
C11_Witness ==
    /\ ctl_ret = Some(RET_TRUE)
    /\ cdc.baudrate = None
    /\ cdc.dtr = Some(TRUE)
    /\ cdc.break_cb = Some("on_break")
    /\ cb_calls = <<>>

(***************************************************************************)
(* CDCDataInterface properties                                             *)
(***************************************************************************)
\* C2: read(nbytes) never returns more than nbytes bytes, whatever completions (each
\* of 0..64 bytes) occur while it waits.
C2_ReadAtMostNbytes ==
    (read_pc = "idle" /\ read_ret # None) => Len(read_ret[1]) <= nbytes

\* C3: read(nbytes) always terminates, whatever the framework does: it returns once
\* the accumulated count has reached nbytes or the timeout has elapsed, and not
\* before; when no transfer ever completes, a read of nbytes > 0 (such as read(64))
\* returns an empty buffer when the timeout expires.
C3_ReadTerminates ==
    /\ [](read_pc # "idle" => <>(read_pc = "idle"))
    /\ [][Read224 => (dat.rx_nbytes >= nbytes \/ elapsed >= dat.timeout)]_vars
    /\ []((read_pc = "idle" /\ read_ret # None /\ ~completed /\ nbytes > 0)
            => /\ read_ret = Some(<<>>)
               /\ read_exit[read_id] = "timeout"
               /\ elapsed >= dat.timeout)

\* read(64) with a 1-second timeout returned empty, its transfer never completed.
C3_Witness ==
    /\ read_pc = "idle"
    /\ nbytes = 64
    /\ dat.timeout = 1
    /\ ~completed
    /\ in_flight # <<>>
    /\ read_ret = Some(<<>>)
    /\ elapsed = 1

\* C4: during a read(nbytes), each completion callback appends exactly the num_bytes
\* received bytes to the accumulation buffer and adds num_bytes to the accumulated
\* count; it then submits exactly one further transfer if the count is still below
\* nbytes, and none if the count has reached nbytes.
C4_CallbackAppendsAndResubmits ==
    [][\A num_bytes \in NumBytesIn :
          (Complete(num_bytes) /\ read_pc # "idle") =>
            /\ dat'.total_rx = dat.total_rx \o [i \in 1..num_bytes |-> Head(in_flight)]
            /\ dat'.rx_nbytes = dat.rx_nbytes + num_bytes
            /\ Len(in_flight') = (Len(in_flight) - 1)
                                   + (IF dat'.rx_nbytes < nbytes THEN 1 ELSE 0)
      ]_vars

\* The read() call that submitted the oldest outstanding transfer has returned.
HeadIsAbandoned ==
    /\ in_flight # <<>>
    /\ (Head(in_flight) < read_id \/ read_pc = "idle")

\* C5: the completion of a transfer left in flight by a read() that has returned is not
\* discarded: its bytes are appended to the accumulation buffer that is current at
\* that time and counted, so that a later read() can return bytes delivered by a
\* transfer that an earlier, timed-out read() submitted.
C5_AbandonedTransferDelivers ==
    [][\A num_bytes \in NumBytesIn :
          (HeadIsAbandoned /\ Complete(num_bytes)) =>
            /\ dat'.total_rx = dat.total_rx \o [i \in 1..num_bytes |-> Head(in_flight)]
            /\ dat'.rx_nbytes = dat.rx_nbytes + num_bytes
      ]_vars

\* The first read() timed out; the second returned bytes of the first one's transfer.
C5_Witness ==
    /\ read_id = 2
    /\ read_pc = "idle"
    /\ read_exit[1] = "timeout"
    /\ read_ret # None
    /\ read_ret[1] # <<>>
    /\ \A i \in 1..Len(read_ret[1]) : read_ret[1][i] = 1

\* C18: across any sequence of read() calls, timeouts and completions, at most one
\* transfer submitted by CDCDataInterface is outstanding on the OUT endpoint, so that
\* rx_buf is never the buffer of two outstanding transfers at once.
C18_AtMostOneOutstanding ==
    Len(in_flight) <= 1

(***************************************************************************)
(* RingBuf with one producer and one consumer: properties                  *)
(***************************************************************************)
\* The bytes get() has taken out of the buffer: those it has returned and the one
\* it is about to return.
Taken ==
    get_log \o (IF get_pc = "l41" THEN <<get_value>> ELSE <<>>)

\* C19: with put() on one side and get() and is_empty() on the other interleaved
\* between any two statements, the bytes returned by get() are the bytes put() has
\* stored, in the order stored: none is lost, duplicated or returned before it was
\* written; put() returns the byte exactly when it stored it; and both indices stay
\* within 0..size-1.
C19_SingleProducerSingleConsumer ==
    /\ [](/\ crb.index_put \in 0..(crb.size - 1)
          /\ crb.index_get \in 0..(crb.size - 1)
          /\ put_log = Taken \o Contents(crb)
          /\ \A n \in 1..Len(get_log) : get_log[n] = put_log[n]
          /\ \A n \in 1..Len(put_log) : \A k \in 1..Len(put_log) :
                put_log[n] = put_log[k] => n = k
          /\ (put_pc = "idle" /\ put_ret # None) => put_log[Len(put_log)] = put_ret[1]
          /\ (put_pc = "idle" /\ put_ret = None /\ put_count > 0)
                => (put_log = <<>> \/ put_log[Len(put_log)] # put_value))
    /\ [][/\ IsEmptyCall => empty_ret' = Some(Contents(crb) = <<>>)
          /\ Get37 => Len(get_log) <= Len(put_log)
          /\ Get41 => get_ret' = Some(put_log[Len(get_log) + 1])
         ]_vars

\* The buffer was full and a put() rejected; the consumer has since returned the two
\* oldest bytes, and a get() that has read the third was overtaken by a whole put().
C19_Witness ==
    /\ crb.size = 3
    /\ get_log = <<1, 2>>
    /\ get_pc = "l40"
    /\ get_value = 4
    /\ put_pc = "idle"
    /\ put_ret = Some(4)
    /\ put_count = 4

(***************************************************************************)
(* Descriptor properties.  A descriptor stream is read as a host reads it: *)
(* split into descriptors at the lengths their first bytes declare.        *)
(***************************************************************************)
SplitDescriptors(bytes) ==
    LET parts[pos \in 1..(Len(bytes) + 1)] ==
          IF pos > Len(bytes) THEN <<>>
          ELSE IF bytes[pos] = 0 \/ pos + bytes[pos] - 1 > Len(bytes)
            THEN <<SubSeq(bytes, pos, Len(bytes))>>
            ELSE <<SubSeq(bytes, pos, pos + bytes[pos] - 1)>> \o parts[pos + bytes[pos]]
    IN  parts[1]

\* The class-specific interface descriptors of the given subtype, in order.
FunctionalDescriptors(bytes, subtype) ==
    SelectSeq(SplitDescriptors(bytes),
              LAMBDA d : Len(d) >= 3 /\ d[2] = _CS_DESC_TYPE /\ d[3] = subtype)

\* C12: for every interface index itf_idx, the Call-Management functional descriptor
\* in the bytes returned by CDCControlInterface.get_itf_descriptor has capabilities 0
\* and a data-interface byte equal to itf_idx + 1, the interface number that the
\* Union descriptor names as subordinate.
C12_CallManagementDescriptor ==
    (cdc_itf # None /\ ~cdc_itf[1].raised) =>
        LET cm == FunctionalDescriptors(cdc_itf[1].desc, _CDC_FUNC_DESC_CALL_MANAGEMENT)
            un == FunctionalDescriptors(cdc_itf[1].desc, _CDC_FUNC_DESC_UNION)
        IN  /\ Len(cm) = 1
            /\ Len(cm[1]) = 5
            /\ cm[1][4] = 0
            /\ cm[1][5] = cdc_itf[1].itf_idx + 1
            /\ Len(un) = 1
            /\ Len(un[1]) = 5
            /\ cm[1][5] = un[1][5]

\* C13: for every interface index itf_idx, the Union functional descriptor in the
\* bytes returned by CDCControlInterface.get_itf_descriptor is 5 bytes long, as its
\* length byte declares, its controlInterface byte is itf_idx and its subordinate0
\* byte is itf_idx + 1.
C13_UnionDescriptor ==
    (cdc_itf # None /\ ~cdc_itf[1].raised) =>
        LET un == FunctionalDescriptors(cdc_itf[1].desc, _CDC_FUNC_DESC_UNION)
        IN  /\ Len(un) = 1
            /\ Len(un[1]) = 5
            /\ un[1][1] = 5
            /\ un[1][4] = cdc_itf[1].itf_idx
            /\ un[1][5] = cdc_itf[1].itf_idx + 1

\* The jack descriptors of a MIDI interface descriptor: what follows the standard
\* interface descriptor and the MS header.
JackDescriptors(bytes) ==
    SubSeq(SplitDescriptors(bytes), 3, Len(SplitDescriptors(bytes)))

SumOfLengths(descs) ==
    LET sum[n \in 0..Len(descs)] == IF n = 0 THEN 0 ELSE sum[n - 1] + Len(descs[n])
    IN  sum[Len(descs)]

\* C14: for every num_rx and num_tx, the wTotalLength field of the MS header equals
\* the number of bytes emitted: 7 for the header plus the lengths of all Jack-In
\* (6 bytes) and Jack-Out (9 bytes) descriptors that get_itf_descriptor appends.
C14_TotalLengthMatchesEmitted ==
    midi_itf # None =>
        LET parts  == SplitDescriptors(midi_itf[1].desc)
            header == parts[2]
            jacks  == JackDescriptors(midi_itf[1].desc)
        IN  /\ Len(header) = 7
            /\ \A n \in 1..Len(jacks) :
                  \/ jacks[n][3] = 2 /\ Len(jacks[n]) = 6
                  \/ jacks[n][3] = 3 /\ Len(jacks[n]) = 9
            /\ header[6] + 256 * header[7] = 7 + SumOfLengths(jacks)
            /\ header[6] + 256 * header[7] = Len(midi_itf[1].desc) - Len(parts[1])

RxEmbIds(self) == {_emb_id(self, FALSE, idx) : idx \in 0..(self.num_rx - 1)}
TxEmbIds(self) == {_emb_id(self, TRUE, idx) : idx \in 0..(self.num_tx - 1)}

\* The jack IDs (byte 4) of the descriptors of the given subtype and jack type.
JackIds(jacks, subtype, bJackType) ==
    LET sel == SelectSeq(jacks, LAMBDA d : d[3] = subtype /\ d[4] = bJackType)
    IN  [n \in 1..Len(sel) |-> sel[n][5]]

\* C15: for every num_rx and num_tx, the embedded jack IDs that _emb_id produces for
\* the rx indices 0..num_rx-1 and the tx indices 0..num_tx-1 are odd, pairwise
\* distinct and num_rx + num_tx in number, every rx ID is lower than every tx ID, and
\* in the emitted descriptor the external jack of each connection has the ID of its
\* embedded jack plus 1.
C15_JackIds ==
    /\ \A id \in RxEmbIds(midi) \cup TxEmbIds(midi) : id % 2 = 1
    /\ Cardinality(RxEmbIds(midi)) = midi.num_rx
    /\ Cardinality(TxEmbIds(midi)) = midi.num_tx
    /\ Cardinality(RxEmbIds(midi) \cup TxEmbIds(midi)) = midi.num_rx + midi.num_tx
    /\ \A r \in RxEmbIds(midi), t \in TxEmbIds(midi) : r < t
    /\ midi_itf # None =>
         LET jacks == JackDescriptors(midi_itf[1].desc)
             emb(k) == IF jacks[2 * k - 1][4] = _JACK_TYPE_EMBEDDED
                         THEN jacks[2 * k - 1] ELSE jacks[2 * k]
             ext(k) == IF jacks[2 * k - 1][4] = _JACK_TYPE_EMBEDDED
                         THEN jacks[2 * k] ELSE jacks[2 * k - 1]
         IN  /\ Len(jacks) = 2 * (midi.num_rx + midi.num_tx)
             /\ \A k \in 1..(midi.num_rx + midi.num_tx) :
                   /\ emb(k)[4] = _JACK_TYPE_EMBEDDED
                   /\ ext(k)[4] = _JACK_TYPE_EXTERNAL
                   /\ ext(k)[5] = emb(k)[5] + 1
                   /\ emb(k)[5] = 2 * k - 1
                   /\ emb(k)[5] \in (IF k <= midi.num_rx THEN RxEmbIds(midi)
                                                        ELSE TxEmbIds(midi))

\* The interface descriptor of a device with two rx and two tx connections.
C15_Witness ==
    /\ midi.num_rx = 2
    /\ midi.num_tx = 2
    /\ midi_itf # None
    /\ RxEmbIds(midi) = {1, 3}
    /\ TxEmbIds(midi) = {5, 7}
    /\ Len(JackDescriptors(midi_itf[1].desc)) = 8

\* C16: for every num_rx and num_tx, the class-specific endpoint descriptors agree with
\* the interface descriptor: the MS_GENERAL descriptor after the first (rx) endpoint
\* has length 4 + num_rx, jack count num_rx and lists, in order, exactly the IDs of the
\* Embedded MIDI-IN jacks of get_itf_descriptor; the one after the second (tx) endpoint
\* has length 4 + num_tx, jack count num_tx and lists exactly the IDs of the Embedded
\* MIDI-OUT jacks.
C16_EndpointJacksMatchInterface ==
    midi_eps # None =>
        LET parts == SplitDescriptors(midi_eps[1].desc) IN
        /\ Len(parts) = 4
        /\ parts[1][2] = 5 /\ parts[1][3] = midi_eps[1].eps[1]
        /\ parts[3][2] = 5 /\ parts[3][3] = midi_eps[1].eps[2]
        /\ parts[2][2] = 37 /\ parts[2][3] = 1
        /\ parts[4][2] = 37 /\ parts[4][3] = 1
        /\ Len(parts[2]) = 4 + midi.num_rx /\ parts[2][1] = 4 + midi.num_rx
        /\ Len(parts[4]) = 4 + midi.num_tx /\ parts[4][1] = 4 + midi.num_tx
        /\ parts[2][4] = midi.num_rx
        /\ parts[4][4] = midi.num_tx
        /\ midi_itf # None =>
             LET jacks == JackDescriptors(midi_itf[1].desc) IN
             /\ SubSeq(parts[2], 5, Len(parts[2])) = JackIds(jacks, 2, _JACK_TYPE_EMBEDDED)
             /\ SubSeq(parts[4], 5, Len(parts[4])) = JackIds(jacks, 3, _JACK_TYPE_EMBEDDED)

\* Both descriptors of a device with two rx connections and one tx connection.
C16_Witness ==
    /\ midi.num_rx = 2
    /\ midi.num_tx = 1
    /\ midi_itf # None
    /\ midi_eps # None
    /\ SubSeq(SplitDescriptors(midi_eps[1].desc)[2], 5, 6) = <<1, 3>>
    /\ SubSeq(SplitDescriptors(midi_eps[1].desc)[4], 5, 5) = <<5>>

(***************************************************************************)
(* MIDI receive properties                                                 *)
(***************************************************************************)
\* The bytes the framework stores in the transfer buffer for a completion.
CompletedBytes(xferred_bytes) ==
    [i \in 1..xferred_bytes |-> HostByte(host_pos + i - 1)]

\* Number of bytes a RingBuf can still take.
FreeSlots(self) == (self.size - 1) - Len(Contents(self))

\* What C17 says of one completion: the received bytes are put in order, those that
\* do not fit are dropped and the stored ones stay; nothing is raised; one transfer
\* with the same buffer and the same callback replaces the completed one.
C17_CompletionStep(xferred_bytes) ==
    MidiComplete(xferred_bytes) =>
        /\ midi_raised' = None
        /\ Contents(midi'.rb[1]) =
              Contents(midi.rb[1]) \o SubSeq(CompletedBytes(xferred_bytes), 1,
                                             Min(xferred_bytes, FreeSlots(midi.rb[1])))
        /\ Len(midi_xfers') = Len(midi_xfers)
        /\ midi_xfers'[Len(midi_xfers')].buf = Head(midi_xfers).buf
        /\ midi_xfers'[Len(midi_xfers')].cb = Head(midi_xfers).cb

\* C17: after start_receive_data, every completion of xferred_bytes bytes puts those
\* bytes one by one, in order, into the ring buffer (bytes that do not fit are dropped
\* without error and without disturbing the stored ones) and then submits exactly one
\* new transfer with the same buffer and the same callback; hence after start exactly
\* one inbound transfer is outstanding whenever the callback is not running.
C17_ContinuousReceive ==
    /\ [](midi_started => Len(midi_xfers) = 1)
    /\ [](midi_started => midi.rx_data # None /\ Len(midi.rx_data[1]) = RX_DATA_LEN)
    /\ [][\A xferred_bytes \in NumMidiBytes : C17_CompletionStep(xferred_bytes)]_vars

\* C20: whatever completions (also ones that overflow the ring buffer or whose byte
\* count is no multiple of 4) and get_midi calls occur, get_midi returns either the
\* four bytes of one USB-MIDI event or (None, None, None, None): never a tuple that
\* mixes bytes with None, never bytes of two events in one tuple.
C20_GetMidiReturnsWholeEvents ==
    midi_ret # None =>
        \/ midi_ret[1] = <<None, None, None, None>>
        \/ \E e \in 0..(MaxMidiBytes \div 4) :
              midi_ret[1] = <<Some(HostByte(4 * e)), Some(HostByte(4 * e + 1)),
                              Some(HostByte(4 * e + 2)), Some(HostByte(4 * e + 3))>>

\* The transfer submitted last.
LastSubmitted(xfers) == xfers[Len(xfers)]

\* C21: for every endpoint base address ep_addr assigned at enumeration, every
\* inbound transfer the receive loop submits targets the same endpoint address, the
\* one get_endpoint_descriptors recorded for receiving: the first transfer, from
\* start_receive_data, and each resubmission, from receive_data_callback, which
\* therefore names the endpoint of the transfer it replaces.  The recorded endpoint
\* is taken to be self.ep_in, the attribute start_receive_data passes to submit_xfer.
C21_SameReceiveEndpoint ==
    [][/\ (StartReceiveData /\ midi_xfers' # <<>>) =>
              LastSubmitted(midi_xfers').ep = midi.ep_in[1]
       /\ \A xferred_bytes \in NumMidiBytes :
              MidiComplete(xferred_bytes) =>
                  /\ LastSubmitted(midi_xfers').ep = Head(midi_xfers).ep
                  /\ LastSubmitted(midi_xfers').ep = midi.ep_in[1]]_vars

====
